---- MODULE Spec2Model ----
(***************************************************************************)
(* Model of the transform stage of the ETL pipeline (transformer.py):      *)
(* load_staged_file -> clean_data -> feature_engineering ->                *)
(* data_quality_report -> ml_analysis -> save_processed, as run by main(). *)
(*                                                                         *)
(* A DataFrame is a record [dtype, rows]: dtype maps each column name to   *)
(* its dtype, rows is the sequence of rows, each carrying its index label  *)
(* (idx) and one cell per column.  A cell is a record [k, s, n]: k is the  *)
(* kind of value, s a text, n a number.  Numbers are exact rationals held  *)
(* as integers in units of 1/Unit.                                         *)
(***************************************************************************)
EXTENDS Integers, Sequences, FiniteSets, TLC

VARIABLES
    staging,      \* data/staging: file name -> [src, at] (who wrote it, when)
    source,       \* the --source argument of transformer.py
    pc,           \* position of main(): start, loaded, cleaned, featured,
                  \* reported, analysed, saved, failed
    latest,       \* the file load_staged_file picked
    df,           \* the DataFrame main() holds
    loaded,       \* the DataFrame as read from the staged file
    imputed,      \* the DataFrame inside clean_data, before the capping loop
    cleaned,      \* the DataFrame clean_data returned
    report,       \* data_quality_report's result
    ml_results,   \* ml_analysis's results dict, as its set of keys
    error,        \* the exception that ended main(): [type, msg, stage], msg
                  \* the text of the message, its fixed part as one element
    processed,    \* what save_processed received: [df, source, results]
    config,       \* pipeline.py: the source names of config.yaml, in file order
    ppc,          \* pipeline.py: idle, extract, transform, email, done
    cursor,       \* pipeline.py: position of the for loop in config
    clock,        \* the UTC clock, in seconds
    success_sources,  \* pipeline.py: the success list
    failed_sources,   \* pipeline.py: the failed list
    log           \* the subprocesses run and the e-mails attempted, in order

\* the variables of pipeline.py
orchVars == <<config, ppc, cursor, clock, success_sources, failed_sources, log>>

\* the variables of one transformer.py process
mainVars == <<source, pc, latest, df, loaded, imputed, cleaned, report,
              ml_results, error, processed>>

vars == <<staging, source, pc, latest, df, loaded, imputed, cleaned, report,
          ml_results, error, processed, config, ppc, cursor, clock,
          success_sources, failed_sources, log>>

----------------------------------------------------------------------------
(* Bounds of the model *)

\* rows of a staged dataset that has the single numeric column
MaxRows == 4
\* rows of a staged dataset that has two columns
MaxWideRows == 3

\* 1 .. n as a product-free least common multiple
RECURSIVE LCMUpTo(_)
LCMUpTo(n) ==
    IF n <= 1 THEN 1
    ELSE LET m == LCMUpTo(n - 1)
             k == CHOOSE j \in 1..n : (m * j) % n = 0 /\
                      \A i \in 1..(j - 1) : (m * i) % n # 0
         IN m * k

\* the longest dataset the model loads
MaxLen == IF MaxRows > 5 THEN MaxRows ELSE 5

\* numbers are held in units of 1/Unit, so that a mean of up to MaxLen
\* integers and two successive medians are exact
Unit == 4 * LCMUpTo(MaxLen)

----------------------------------------------------------------------------
(* Cells *)

Num(v)  == [k |-> "num",  s |-> "", n |-> v]
NaN     == [k |-> "nan",  s |-> "", n |-> 0]
None    == [k |-> "none", s |-> "", n |-> 0]
NaT     == [k |-> "nat",  s |-> "", n |-> 0]
Str(t)  == [k |-> "str",  s |-> t,  n |-> 0]
Dict(t) == [k |-> "dict", s |-> t,  n |-> 0]
List(t) == [k |-> "list", s |-> t,  n |-> 0]
\* a text that pd.to_datetime parses, n = YYYYMMDDHH
TsText(v) == [k |-> "str", s |-> "ts", n |-> v]
\* a parsed timestamp (datetime64), n = YYYYMMDDHH
Ts(v)   == [k |-> "ts",   s |-> "", n |-> v]

\* pandas isna()
isna(c) == c.k \in {"nan", "none", "nat"}

\* isinstance(x, (dict, list))
IsStructured(c) == c.k \in {"dict", "list"}

\* str(x) of a value of an object column: the repr of a dict or list, the
\* text itself for a str, "None" and "nan" for the missing values
PyStr(c) ==
    CASE c.k \in {"dict", "list"} -> Str(c.s)
      [] c.k = "str"  -> c
      [] c.k = "none" -> Str("None")
      [] c.k = "nan"  -> Str("nan")
      [] c.k = "nat"  -> Str("NaT")
      [] OTHER        -> c

----------------------------------------------------------------------------
(* DataFrames *)

NoDF == [dtype |-> [c \in {} |-> ""], rows |-> <<>>]

columns(d) == DOMAIN d.dtype

len(d) == Len(d.rows)

\* the values of column col, in row order
Column(d, col) == [i \in 1..Len(d.rows) |-> d.rows[i].c[col]]

\* the index labels, in row order
Index(d) == [i \in 1..Len(d.rows) |-> d.rows[i].idx]

\* df[col] = values (one per row), with the dtype the assignment gives
SetColumn(d, col, values, dt) ==
    [dtype |-> [c \in columns(d) \cup {col} |-> IF c = col THEN dt ELSE d.dtype[c]],
     rows  |-> [i \in 1..Len(d.rows) |->
                  [idx |-> d.rows[i].idx,
                   c   |-> [c \in columns(d) \cup {col} |->
                              IF c = col THEN values[i] ELSE d.rows[i].c[c]]]]]

NumericDtypes == {"int64", "float64", "int32"}

\* df.select_dtypes(include=[np.number]).columns
select_numeric(d) == {c \in columns(d) : d.dtype[c] \in NumericDtypes}

\* a frame built from a sequence of cell rows, with a fresh RangeIndex
Frame(dt, cells) ==
    [dtype |-> dt,
     rows  |-> [i \in 1..Len(cells) |-> [idx |-> i - 1, c |-> cells[i]]]]

----------------------------------------------------------------------------
(* Column statistics, as pandas computes them (missing values skipped) *)

\* the positions of a column that hold a number
Present(col) == {i \in DOMAIN col : col[i].k = "num"}

RECURSIVE SumOver(_, _)
SumOver(col, S) ==
    IF S = {} THEN 0
    ELSE LET i == CHOOSE j \in S : TRUE
         IN col[i].n + SumOver(col, S \ {i})

\* Series.mean(): NaN when no value is present
mean(col) ==
    IF Present(col) = {} THEN NaN
    ELSE Num(SumOver(col, Present(col)) \div Cardinality(Present(col)))

\* the k-th smallest present number, k counted from 0
KthSmallest(col, k) ==
    LET P == Present(col)
        i == CHOOSE j \in P :
                 /\ Cardinality({h \in P : col[h].n < col[j].n}) <= k
                 /\ Cardinality({h \in P : col[h].n <= col[j].n}) > k
    IN col[i].n

\* four times Series.quantile(q4 / 4), linear interpolation between the two
\* order statistics around position (q4 / 4) * (n - 1); needs a present value
Quantile4(col, q4) ==
    LET n    == Cardinality(Present(col))
        pos4 == q4 * (n - 1)
        lo   == pos4 \div 4
        r    == pos4 % 4
        hi   == IF lo + 1 <= n - 1 THEN lo + 1 ELSE lo
    IN (4 - r) * KthSmallest(col, lo) + r * KthSmallest(col, hi)

\* Series.median(): NaN when no value is present
median(col) ==
    IF Present(col) = {} THEN NaN ELSE Num(Quantile4(col, 2) \div 4)

\* Series.fillna(value): filling with NaN leaves the entry missing
fillna(col, value) ==
    [i \in DOMAIN col |-> IF isna(col[i]) THEN value ELSE col[i]]

\* Q1, Q3, IQR and the bounds lower, upper of the capping loop, the
\* quartiles times 4 and the bounds times 8; nan when the column holds no number
Fence(col) ==
    IF Present(col) = {} THEN [nan |-> TRUE, q1 |-> 0, q3 |-> 0, lower |-> 0, upper |-> 0]
    ELSE LET Q1  == Quantile4(col, 1)
             Q3  == Quantile4(col, 3)
             IQR == Q3 - Q1
         IN [nan |-> FALSE, q1 |-> Q1, q3 |-> Q3,
             lower |-> 2 * Q1 - 3 * IQR, upper |-> 2 * Q3 + 3 * IQR]

\* (df[col] < lower) | (df[col] > upper) for one cell: a comparison with NaN
\* on either side is False
Flagged(f, c) ==
    /\ ~f.nan
    /\ c.k = "num"
    /\ (8 * c.n < f.lower \/ 8 * c.n > f.upper)

----------------------------------------------------------------------------
(* clean_data *)

\* the first loop: a column with a dict or list in it becomes str in every row
Stringify(d) ==
    LET structured == {c \in columns(d) :
                          \E i \in 1..len(d) : IsStructured(d.rows[i].c[c])}
    IN [dtype |-> d.dtype,
        rows  |-> [i \in 1..len(d) |->
                     [idx |-> d.rows[i].idx,
                      c   |-> [c \in columns(d) |->
                                 IF c \in structured THEN PyStr(d.rows[i].c[c])
                                 ELSE d.rows[i].c[c]]]]]

\* the n-th smallest element of a set of numbers, n counted from 1
NthOf(K, n) == CHOOSE i \in K : Cardinality({j \in K : j < i}) = n - 1

\* the rows at the positions K, in their order
TakeRows(rows, K) == [n \in 1..Cardinality(K) |-> rows[NthOf(K, n)]]

\* a variant of drop_duplicates that keeps the last occurrence
drop_duplicates_keep_last(d) ==
    LET K == {i \in 1..len(d) : \A j \in (i + 1)..len(d) : d.rows[j].c # d.rows[i].c}
    IN [dtype |-> d.dtype, rows |-> TakeRows(d.rows, K)]

\* df.drop_duplicates(): a row equal in every column to an earlier row goes,
\* the index labels of the others stay
drop_duplicates(d) ==
    LET K == {i \in 1..len(d) : \A j \in 1..(i - 1) : d.rows[j].c # d.rows[i].c}
    IN [dtype |-> d.dtype, rows |-> TakeRows(d.rows, K)]

\* the imputation loop: the mean for a float64 or int64 column, the text
\* "missing" for any other
Impute(d) ==
    LET value == [c \in columns(d) |->
                     IF d.dtype[c] \in {"float64", "int64"}
                     THEN mean(Column(d, c)) ELSE Str("missing")]
        filled == [c \in columns(d) |-> fillna(Column(d, c), value[c])]
        hasna == [c \in columns(d) |-> \E i \in 1..len(d) : isna(d.rows[i].c[c])]
    IN [dtype |-> [c \in columns(d) |->
                     IF d.dtype[c] \in {"float64", "int64", "object"} \/ ~hasna[c]
                     THEN d.dtype[c] ELSE "object"],
        rows  |-> [i \in 1..len(d) |->
                     [idx |-> d.rows[i].idx,
                      c   |-> [c \in columns(d) |-> filled[c][i]]]]]

\* a variant of CapColumn that replaces by the mean, not the median
CapColumn_MeanFill(col) ==
    LET f == Fence(col)
        m == mean(col)
    IN [i \in DOMAIN col |-> IF Flagged(f, col[i]) THEN m ELSE col[i]]

\* np.where(flagged, df[col].median(), df[col]) for one numeric column
CapColumn(col) ==
    LET f == Fence(col)
        m == median(col)
    IN [i \in DOMAIN col |-> IF Flagged(f, col[i]) THEN m ELSE col[i]]

\* a variant of CapOutliers that removes the rows holding a flagged value
CapOutliers_DropRows(d) ==
    LET numeric_cols == select_numeric(d)
        K == {i \in 1..len(d) :
                 \A c \in numeric_cols : ~Flagged(Fence(Column(d, c)), d.rows[i].c[c])}
    IN [dtype |-> [c \in columns(d) |->
                     IF c \in numeric_cols THEN "float64" ELSE d.dtype[c]],
        rows  |-> TakeRows(d.rows, K)]

\* the capping loop over the numeric columns
CapOutliers(d) ==
    LET numeric_cols == select_numeric(d)
        capped == [c \in numeric_cols |-> CapColumn(Column(d, c))]
    IN [dtype |-> [c \in columns(d) |->
                     IF c \in numeric_cols THEN "float64" ELSE d.dtype[c]],
        rows  |-> [i \in 1..len(d) |->
                     [idx |-> d.rows[i].idx,
                      c   |-> [c \in columns(d) |->
                                 IF c \in numeric_cols THEN capped[c][i]
                                 ELSE d.rows[i].c[c]]]]]

\* clean_data up to the capping loop
BeforeCapping(d) == Impute(drop_duplicates(Stringify(d)))

clean_data(d) == CapOutliers(BeforeCapping(d))

----------------------------------------------------------------------------
(* feature_engineering *)

\* pd.to_datetime(x, errors="coerce") of one cell
to_datetime(c) ==
    CASE c.k = "ts" -> c
      [] c.k = "str" /\ c.s = "ts" -> Ts(c.n)
      [] OTHER -> NaT

\* the fields .dt.year, .dt.month, .dt.day, .dt.hour of a parsed timestamp
\* held as YYYYMMDDHH; NaN where the timestamp is NaT
dt_field(c, f) ==
    IF c.k # "ts" THEN NaN
    ELSE CASE f = "year"  -> Num((c.n \div 1000000) * Unit)
           [] f = "month" -> Num(((c.n \div 10000) % 100) * Unit)
           [] f = "day"   -> Num(((c.n \div 100) % 100) * Unit)
           [] f = "hour"  -> Num((c.n % 100) * Unit)

\* the timestamp branch: parse the column and, when a value parsed, add the
\* four calendar columns (int32, or float64 when a NaT makes a NaN)
CalendarFeatures(d) ==
    IF "timestamp" \notin columns(d) THEN d
    ELSE LET ts  == [i \in 1..len(d) |-> to_datetime(d.rows[i].c["timestamp"])]
             d0  == SetColumn(d, "timestamp", ts, "datetime64[ns]")
             dtf == IF \E i \in 1..len(d) : isna(ts[i]) THEN "float64" ELSE "int32"
             fld(f) == [i \in 1..len(d) |-> dt_field(ts[i], f)]
         IN IF \A i \in 1..len(d) : isna(ts[i]) THEN d0
            ELSE SetColumn(SetColumn(SetColumn(SetColumn(d0,
                     "year", fld("year"), dtf), "month", fld("month"), dtf),
                     "day", fld("day"), dtf), "hour", fld("hour"), dtf)

\* StandardScaler().fit_transform of one column: z = (x - mean) / std over the
\* present values.  With N values of sum S the z-score is
\* (N*x - S) / sqrt(N*sum(x^2) - S^2); the cell holds the numerator N*x - S,
\* the column's common positive divisor is left out (a zero variance makes
\* every numerator 0, where sklearn divides by 1).  NaN stays NaN.
ScaleColumn(col) ==
    LET P == Present(col)
        N == Cardinality(P)
        S == SumOver(col, P)
    IN [i \in DOMAIN col |-> IF col[i].k = "num" THEN Num(N * col[i].n - S) ELSE col[i]]

\* the scaling branch over the numeric columns
ScaleNumeric(d) ==
    LET numeric_cols == select_numeric(d)
        scaled == [c \in numeric_cols |-> ScaleColumn(Column(d, c))]
    IN [dtype |-> [c \in columns(d) |->
                     IF c \in numeric_cols THEN "float64" ELSE d.dtype[c]],
        rows  |-> [i \in 1..len(d) |->
                     [idx |-> d.rows[i].idx,
                      c   |-> [c \in columns(d) |->
                                 IF c \in numeric_cols THEN scaled[c][i]
                                 ELSE d.rows[i].c[c]]]]]

\* a variant of feature_engineering that drops the rows whose timestamp did
\* not parse
feature_engineering_dropna(d) ==
    LET e == ScaleNumeric(CalendarFeatures(d))
        K == {i \in 1..len(e) : \A c \in columns(e) : ~isna(e.rows[i].c[c])}
    IN [dtype |-> e.dtype, rows |-> TakeRows(e.rows, K)]

feature_engineering(d) == ScaleNumeric(CalendarFeatures(d))

----------------------------------------------------------------------------
(* data_quality_report *)

NoReport == [rows |-> -1, columns |-> -1,
             missing_values |-> [c \in {} |-> 0], dtypes |-> [c \in {} |-> ""]]

\* rows, columns, df.isna().sum() and df.dtypes; the describe() table is not
\* modelled
data_quality_report(d) ==
    [rows    |-> len(d),
     columns |-> Cardinality(columns(d)),
     missing_values |-> [c \in columns(d) |->
                           Cardinality({i \in 1..len(d) : isna(d.rows[i].c[c])})],
     dtypes  |-> d.dtype]

----------------------------------------------------------------------------
(* ml_analysis *)

\* KMeans(n_clusters=3, ...)
n_clusters == 3

\* a label a fitted model gave a row: the value is the model's, not modelled
Label(t) == [k |-> "label", s |-> t, n |-> 0]

\* IsolationForest.fit_predict / KMeans.fit_predict raise ValueError: KMeans
\* needs n_samples >= n_clusters, and a NaN in the feature matrix is rejected
FitFails(d) ==
    \/ len(d) < n_clusters
    \/ \E c \in select_numeric(d) : \E i \in 1..len(d) : isna(d.rows[i].c[c])

\* a variant of HasUsableTimestamp that only looks for the column
HasUsableTimestamp_ColumnOnly(d) == "timestamp" \in columns(d)

\* "timestamp" in df.columns and df["timestamp"].notna().any()
HasUsableTimestamp(d) ==
    /\ "timestamp" \in columns(d)
    /\ \E i \in 1..len(d) : ~isna(d.rows[i].c["timestamp"])

\* the keys of the results dict of a run whose fits succeed
ResultKeys(d) ==
    IF select_numeric(d) = {} \/ len(d) = 0 THEN {}
    ELSE {"anomaly_counts", "cluster_counts", "cluster_centers",
          "summary_statistics", "correlations"}
         \cup (IF HasUsableTimestamp(d)
               THEN {"time_series_trend", "time_series_plots"} ELSE {})

\* the frame ml_analysis returns: the anomaly and cluster columns appended
\* when there is a numeric column
Labelled(d) ==
    IF select_numeric(d) = {} \/ len(d) = 0 THEN d
    ELSE SetColumn(SetColumn(d, "anomaly", [i \in 1..len(d) |-> Label("anomaly")], "int64"),
                   "cluster", [i \in 1..len(d) |-> Label("cluster")], "int32")

----------------------------------------------------------------------------
(* The staging directory.  A file name is a sequence of characters. *)

\* the characters the file names use, in ASCII order
Alphabet == <<".", "0", "1", "2", "3", "4", "5", "6", "7", "8", "9", "T", "Z",
              "_", "a", "b", "c", "e", "p", "q", "r", "t", "u">>

Ord(ch) == CHOOSE i \in 1..Len(Alphabet) : Alphabet[i] = ch

\* s < t as Python compares strings
StrLess(s, t) ==
    \E i \in 1..(Len(t)) :
        /\ \A j \in 1..(i - 1) : j <= Len(s) /\ s[j] = t[j]
        /\ \/ i = Len(s) + 1
           \/ i <= Len(s) /\ Ord(s[i]) < Ord(t[i])

StartsWith(s, prefix) ==
    Len(prefix) <= Len(s) /\ SubSeq(s, 1, Len(prefix)) = prefix

EndsWith(s, suffix) ==
    Len(suffix) <= Len(s) /\ SubSeq(s, Len(s) - Len(suffix) + 1, Len(s)) = suffix

Digit(n) == Alphabet[n + 2]

\* strftime of the clock: fixed width, zero padded, most significant first
\* (the model's clock counts seconds below 100)
strftime(t) == <<Digit(t \div 10), Digit(t % 10), "Z">>

Sep == <<"_", "_">>
Ext == <<".", "p", "a", "r", "q", "u", "e", "t">>

\* f"{source_name}__{timestamp}.parquet"
StagedName(source_name, t) == source_name \o Sep \o strftime(t) \o Ext

\* save_to_staging at clock t: the file is written (or overwritten)
save_to_staging(dir, source_name, t) ==
    LET name == StagedName(source_name, t)
    IN [f \in DOMAIN dir \cup {name} |->
          IF f = name THEN [src |-> source_name, at |-> t] ELSE dir[f]]

\* STAGING_DIR.glob(f"{source}__*.parquet")
Glob(dir, src) ==
    {f \in DOMAIN dir :
        /\ StartsWith(f, src \o Sep)
        /\ EndsWith(f, Ext)
        /\ Len(f) >= Len(src) + Len(Sep) + Len(Ext)}

\* a variant of Last that takes sorted(files)[0]
Last_First(files) == CHOOSE f \in files : \A g \in files : g = f \/ StrLess(f, g)

\* sorted(files)[-1]
Last(files) == CHOOSE f \in files : \A g \in files : g = f \/ StrLess(g, f)

NoFile == <<>>
EmptyDir == [f \in {} |-> [src |-> <<>>, at |-> 0]]

\* the configured source names
SrcA  == <<"a">>
SrcAB == <<"a", "_", "_", "b">>
SrcC  == <<"c">>
Sources == {SrcA, SrcAB, SrcC}

\* the staging directories a transformer run starts from: nothing staged, or
\* two extractions of a and one of a__b
StagingSamples ==
    {EmptyDir,
     save_to_staging(save_to_staging(save_to_staging(EmptyDir, SrcA, 1), SrcA, 2), SrcAB, 1)}

----------------------------------------------------------------------------
(* The datasets a staged file may hold *)

NumVals == {NaN} \cup {Num(v * Unit) : v \in {1, 2, 3, 4, 100}}

\* the sequences over S of length 1 .. n
RECURSIVE SeqsUpTo(_, _)
SeqsUpTo(S, n) ==
    IF n = 0 THEN {}
    ELSE [1..n -> S] \cup SeqsUpTo(S, n - 1)

\* the column of the specification's scenario
NumScenarios ==
    {<<Num(1 * Unit), Num(2 * Unit), Num(3 * Unit), Num(4 * Unit), Num(100 * Unit)>>}

\* a numeric column read from parquet is float64 when it holds a NaN
NumDtype(col) == IF \E i \in DOMAIN col : isna(col[i]) THEN "float64" ELSE "int64"

\* one numeric column "value"
NumericDatasets ==
    {Frame([c \in {"value"} |-> NumDtype(col)],
           [i \in DOMAIN col |-> [c \in {"value"} |-> col[i]]]) :
        col \in SeqsUpTo(NumVals, MaxRows) \cup NumScenarios}

TagVals == {None, Str("x"), Str("{'a': 1}"), Dict("{'a': 1}")}
TsVals  == {None, Str("bad"), TsText(2024010100), TsText(2024010213)}
SmallNums == {Num(1 * Unit), Num(2 * Unit)}

\* an int64 column "value" and an object column other, drawn from vals
WideDatasets(other, vals) ==
    {Frame([c \in {"value", other} |-> IF c = "value" THEN "int64" ELSE "object"],
           [i \in DOMAIN rows |->
              [c \in {"value", other} |-> IF c = "value" THEN rows[i][1] ELSE rows[i][2]]]) :
        rows \in SeqsUpTo(SmallNums \X vals, MaxWideRows)}

\* two int64 columns: "value" is 1, 1, 1, 1, 100 and "id" numbers the rows
PairScenarios ==
    {Frame([c \in {"value", "id"} |-> "int64"],
           [i \in 1..5 |->
              [c \in {"value", "id"} |->
                 IF c = "id" THEN Num(i * Unit)
                 ELSE IF i = 5 THEN Num(100 * Unit) ELSE Num(1 * Unit)]])}

\* what a staged file may hold: the transformer reads whatever file of the
\* staging directory matches
StagedDatasets ==
    NumericDatasets \cup WideDatasets("tag", TagVals)
    \cup WideDatasets("timestamp", TsVals) \cup PairScenarios

----------------------------------------------------------------------------
(* transformer.py main(source) *)

NoError == [type |-> "", msg |-> <<>>, stage |-> ""]
NoProcessed == [df |-> NoDF, source |-> <<>>,
                results |-> [data_quality |-> NoReport, ml_analysis |-> {}]]

Init ==
    /\ staging \in StagingSamples
    /\ source \in Sources
    /\ pc = "start"
    /\ latest = NoFile
    /\ df = NoDF
    /\ loaded = NoDF
    /\ imputed = NoDF
    /\ cleaned = NoDF
    /\ report = NoReport
    /\ ml_results = {}
    /\ error = NoError
    /\ processed = NoProcessed
    /\ config = <<>>
    /\ ppc = "idle"
    /\ cursor = 0
    /\ clock = 0
    /\ success_sources = <<>>
    /\ failed_sources = <<>>
    /\ log = <<>>

\* df = load_staged_file(source): FileNotFoundError when no file matches,
\* else the last matching file in sorted order is read
load_staged_file ==
    /\ pc = "start"
    /\ LET files == Glob(staging, source)
       IN IF files = {}
          THEN /\ pc' = "failed"
               /\ error' = [type  |-> "FileNotFoundError",
                            msg   |-> <<"No staged files for source: ">> \o source,
                            stage |-> "load_staged_file"]
               /\ UNCHANGED <<latest, df, loaded>>
          ELSE /\ latest' = Last(files)
               /\ \E d \in StagedDatasets : df' = d /\ loaded' = d
               /\ pc' = "loaded"
               /\ UNCHANGED error
    /\ UNCHANGED <<staging, source, imputed, cleaned, report, ml_results, processed>>
    /\ UNCHANGED orchVars

\* df = clean_data(df)
CleanData ==
    /\ pc = "loaded"
    /\ imputed' = BeforeCapping(df)
    /\ df' = clean_data(df)
    /\ cleaned' = df'
    /\ pc' = "cleaned"
    /\ UNCHANGED <<staging, source, latest, loaded, report, ml_results, error, processed>>
    /\ UNCHANGED orchVars

\* df = feature_engineering(df)
FeatureEngineering ==
    /\ pc = "cleaned"
    /\ df' = feature_engineering(df)
    /\ pc' = "featured"
    /\ UNCHANGED <<staging, source, latest, loaded, imputed, cleaned, report,
                   ml_results, error, processed>>
    /\ UNCHANGED orchVars

\* report = data_quality_report(df)
DataQualityReport ==
    /\ pc = "featured"
    /\ report' = data_quality_report(df)
    /\ pc' = "reported"
    /\ UNCHANGED <<staging, source, latest, df, loaded, imputed, cleaned,
                   ml_results, error, processed>>
    /\ UNCHANGED orchVars

\* df, ml_results = ml_analysis(df): nothing catches a ValueError of a fit,
\* it ends main()
MlAnalysis ==
    /\ pc = "reported"
    /\ IF select_numeric(df) # {} /\ len(df) > 0 /\ FitFails(df)
       THEN /\ pc' = "failed"
            /\ error' = [type |-> "ValueError", msg |-> <<>>, stage |-> "ml_analysis"]
            /\ UNCHANGED <<df, ml_results>>
       ELSE /\ df' = Labelled(df)
            /\ ml_results' = ResultKeys(df)
            /\ pc' = "analysed"
            /\ UNCHANGED error
    /\ UNCHANGED <<staging, source, latest, loaded, imputed, cleaned, report, processed>>
    /\ UNCHANGED orchVars

\* final_results = {...}; save_processed(df, source, final_results)
SaveProcessed ==
    /\ pc = "analysed"
    /\ processed' = [df |-> df, source |-> source,
                     results |-> [data_quality |-> report, ml_analysis |-> ml_results]]
    /\ pc' = "saved"
    /\ UNCHANGED <<staging, source, latest, df, loaded, imputed, cleaned, report,
                   ml_results, error>>
    /\ UNCHANGED orchVars

Next ==
    \/ load_staged_file
    \/ CleanData
    \/ FeatureEngineering
    \/ DataQualityReport
    \/ MlAnalysis
    \/ SaveProcessed

Spec == Init /\ [][Next]_vars

----------------------------------------------------------------------------
(* pipeline.py: for each configured source the extractor, then the         *)
(* transformer, each a subprocess awaited to its exit; then one e-mail.    *)

\* the number of sources config.yaml names
MaxSources == 2

\* the sequences of n distinct elements of S
RECURSIVE Arrangements(_, _)
Arrangements(S, n) ==
    IF n = 0 THEN {<<>>}
    ELSE {Append(s, x) : s \in Arrangements(S, n - 1), x \in S} \ 
         {s \in [1..n -> S] : \E i \in 1..n : \E j \in 1..n : i # j /\ s[i] = s[j]}

\* the key orders of the sources mapping of config.yaml (keys are distinct)
Configs ==
    UNION {Arrangements(Sources, n) : n \in 0..(IF MaxSources < Cardinality(Sources)
                                                 THEN MaxSources ELSE Cardinality(Sources))}

\* the time of the latest file of a staging directory
LastStagedAt(dir) ==
    IF DOMAIN dir = {} THEN 0
    ELSE CHOOSE t \in {dir[f].at : f \in DOMAIN dir} :
             \A f \in DOMAIN dir : dir[f].at <= t

\* what the staged file a transformer subprocess reads may hold: a frame on
\* which main() completes and one on which KMeans raises
PipelineDatasets ==
    {Frame([c \in {"value"} |-> "int64"],
           [i \in DOMAIN col |-> [c \in {"value"} |-> col[i]]]) :
        col \in NumScenarios \cup {<<Num(1 * Unit)>>}}

\* main() of transformer.py runs to its end on the frame d
MainCompletes(d) ==
    LET e == feature_engineering(clean_data(d))
    IN ~(select_numeric(e) # {} /\ len(e) > 0 /\ FitFails(e))

\* f"{src} (extractor)", f"{src} (transformer)", the fixed part as one element
FailedTag(src, stage) == src \o <<" (" \o stage \o ")">>

Event(stage, src, ok, file) == [stage |-> stage, src |-> src, ok |-> ok, file |-> file]

\* the for loop moves to the next source, or leaves the loop
NextSource ==
    /\ cursor' = cursor + 1
    /\ ppc' = IF cursor + 1 > Len(config) THEN "email" ELSE "extract"

PipelineInit ==
    /\ staging \in StagingSamples
    /\ source = <<>>
    /\ pc = "idle"
    /\ latest = NoFile
    /\ df = NoDF
    /\ loaded = NoDF
    /\ imputed = NoDF
    /\ cleaned = NoDF
    /\ report = NoReport
    /\ ml_results = {}
    /\ error = NoError
    /\ processed = NoProcessed
    /\ config \in Configs
    /\ ppc = IF Len(config) = 0 THEN "email" ELSE "extract"
    /\ cursor = 1
    /\ clock = LastStagedAt(staging)
    /\ success_sources = <<>>
    /\ failed_sources = <<>>
    /\ log = <<>>

\* a variant of RunExtractor that goes on to the transformer whatever the
\* extractor's exit status
RunExtractor_IgnoreExit ==
    /\ ppc = "extract"
    /\ \E tick \in {0, 1} : \E ok \in BOOLEAN :
           LET src == config[cursor]
               t   == clock + tick
           IN /\ clock' = t
              /\ staging' = IF ok THEN save_to_staging(staging, src, t) ELSE staging
              /\ log' = Append(log, Event("extractor", src, ok,
                                          IF ok THEN StagedName(src, t) ELSE NoFile))
              /\ ppc' = "transform"
              /\ UNCHANGED <<cursor, success_sources, failed_sources>>
    /\ UNCHANGED <<config, mainVars>>

\* ok, error_msg = run_extractor(src, CONFIG_FILE) and the else branch of
\* "if ok": the extractor subprocess exits 0 after save_to_staging wrote its
\* file at the clock's time, or exits non-zero (CalledProcessError, caught)
\* with nothing staged
RunExtractor ==
    /\ ppc = "extract"
    /\ \E tick \in {0, 1} : \E ok \in BOOLEAN :
           LET src == config[cursor]
               t   == clock + tick
           IN /\ clock' = t
              /\ staging' = IF ok THEN save_to_staging(staging, src, t) ELSE staging
              /\ log' = Append(log, Event("extractor", src, ok,
                                          IF ok THEN StagedName(src, t) ELSE NoFile))
              /\ IF ok
                 THEN /\ ppc' = "transform"
                      /\ UNCHANGED <<cursor, success_sources, failed_sources>>
                 ELSE /\ failed_sources' = Append(failed_sources, FailedTag(src, "extractor"))
                      /\ NextSource
                      /\ UNCHANGED success_sources
    /\ UNCHANGED <<config, mainVars>>

\* ok_t, error_msg_t = run_transformer(src) and the lists' update: the
\* transformer subprocess picks its file as load_staged_file does; it exits
\* non-zero when no file matches or main() raises, and may exit non-zero
\* when writing the processed files fails
RunTransformer ==
    /\ ppc = "transform"
    /\ \E d \in PipelineDatasets : \E written \in BOOLEAN :
           LET src   == config[cursor]
               files == Glob(staging, src)
               file  == IF files = {} THEN NoFile ELSE Last(files)
               ok_t  == files # {} /\ MainCompletes(d) /\ written
           IN /\ log' = Append(log, Event("transformer", src, ok_t, file))
              /\ IF ok_t
                 THEN /\ success_sources' = Append(success_sources, src)
                      /\ UNCHANGED failed_sources
                 ELSE /\ failed_sources' = Append(failed_sources, FailedTag(src, "transformer"))
                      /\ UNCHANGED success_sources
              /\ NextSource
    /\ UNCHANGED <<staging, config, clock, mainVars>>

\* send_email(subject, body): every exception of the delivery is caught
SendEmail ==
    /\ ppc = "email"
    /\ \E sent \in BOOLEAN : log' = Append(log, Event("email", <<>>, sent, NoFile))
    /\ ppc' = "done"
    /\ UNCHANGED <<staging, config, cursor, clock, success_sources, failed_sources,
                   mainVars>>

PipelineNext ==
    \/ RunExtractor
    \/ RunTransformer
    \/ SendEmail

SpecPipeline == PipelineInit /\ [][PipelineNext]_vars

----------------------------------------------------------------------------
(* Properties *)

\* the number of missing values of column c
Missing(d, c) == Cardinality({i \in 1..len(d) : isna(d.rows[i].c[c])})

\* the positions of the loaded frame whose rows clean_data kept
KeptPositions(d) == {d.rows[i].idx + 1 : i \in 1..len(d)}

StrictlyIncreasing(s) == \A i \in 1..(Len(s) - 1) : s[i] < s[i + 1]

\* the number x (in units of 1/Unit) lies outside [Q1 - 1.5 IQR, Q3 + 1.5 IQR],
\* q1 and q3 being four times the quartiles
Outside(x, q1, q3) ==
    \/ 8 * x < 2 * q1 - 3 * (q3 - q1)
    \/ 8 * x > 2 * q3 + 3 * (q3 - q1)

\* the text s occurs in the text m
Contains(m, s) ==
    \E k \in 0..(Len(m) - Len(s)) : SubSeq(m, k + 1, k + Len(s)) = s

CalendarColumns == {"year", "month", "day", "hour"}

\* C1: once clean_data has run its imputation loop, no column of the frame
\* holds a missing value, a numeric column whose entries were all missing
\* included.
C1_NoMissingAfterImputation ==
    pc = "cleaned" => \A c \in columns(imputed) : Missing(imputed, c) = 0

\* C2: clean_data is idempotent: cleaning the cleaned frame again gives the
\* same rows, in the same order, with the same values.
C2_CleanIdempotent ==
    pc = "cleaned" => clean_data(df).rows = df.rows

\* C3: a failure of the anomaly or clustering fit does not end the run: the
\* run goes on to hand the record, with an empty ml_analysis, to persistence.
C3_FitFailureIsCaught ==
    error.stage = "ml_analysis" => (pc # "failed" /\ ml_results = {})

\* C4: for every numeric column whose IQR is not zero, every value of the
\* cleaned column lies inside [Q1 - 1.5 IQR, Q3 + 1.5 IQR], the quartiles
\* being those of the column before capping (after deduplication and
\* imputation).
C4_CappedWithinFence ==
    pc = "cleaned" =>
        \A c \in select_numeric(imputed) :
            LET f == Fence(Column(imputed, c))
            IN (~f.nan /\ f.q3 # f.q1) =>
                   \A i \in 1..len(df) :
                       /\ df.rows[i].c[c].k = "num"
                       /\ ~Outside(df.rows[i].c[c].n, f.q1, f.q3)

C4_Witness ==
    /\ pc = "cleaned"
    /\ \E c \in select_numeric(imputed) :
           LET f == Fence(Column(imputed, c))
           IN /\ ~f.nan /\ f.q3 # f.q1
              /\ \E i \in 1..len(imputed) :
                     /\ Outside(imputed.rows[i].c[c].n, f.q1, f.q3)
                     /\ df.rows[i].c[c] # imputed.rows[i].c[c]

\* C5: feature_engineering and ml_analysis keep the rows: after each of them
\* the frame has the rows of the cleaned frame, in the same order (same index
\* labels), every row holds one cell for every column, no column of the
\* cleaned frame is gone, and the columns they do not write are unchanged.
C5_RowsKept ==
    pc \in {"featured", "reported", "analysed", "saved"} =>
        /\ Index(df) = Index(cleaned)
        /\ len(df) = len(cleaned)
        /\ \A i \in 1..len(df) : DOMAIN df.rows[i].c = columns(df)
        /\ columns(cleaned) \subseteq columns(df)
        /\ \A c \in columns(cleaned) \ (select_numeric(cleaned) \cup {"timestamp"}) :
               Column(df, c) = Column(cleaned, c)
        /\ pc = "saved" => Index(processed.df) = Index(cleaned)

C5_Witness ==
    /\ pc = "analysed"
    /\ len(df) >= n_clusters
    /\ "cluster" \in columns(df)
    /\ "year" \in columns(df)
    /\ columns(df) # columns(cleaned)

\* C6: when no staged file matches the source, load_staged_file raises
\* FileNotFoundError with the source name in its message and no later stage
\* runs; when files match, the file picked is the last of them in sorted
\* order and load_staged_file raises nothing.
C6_LoadOrNotFound ==
    pc # "start" =>
        LET files == Glob(staging, source)
        IN /\ files = {} =>
                  /\ pc = "failed"
                  /\ error.type = "FileNotFoundError"
                  /\ Contains(error.msg, source)
                  /\ df = NoDF /\ cleaned = NoDF /\ report = NoReport
                  /\ ml_results = {} /\ processed = NoProcessed
           /\ files # {} =>
                  /\ latest \in files
                  /\ \A g \in files : g = latest \/ StrLess(g, latest)
                  /\ error.stage # "load_staged_file"
                  /\ loaded # NoDF

C6_Witness ==
    /\ pc = "failed"
    /\ error.type = "FileNotFoundError"
    /\ DOMAIN staging # {}
    /\ Glob(staging, source) = {}

\* C7: a column of the loaded frame that holds a dict or a list is str in
\* every row when deduplication runs; deduplication removes exactly the rows
\* equal in all columns (on the stringified values) to an earlier row, keeps
\* the first occurrence, and keeps the order of the surviving rows.
C7_StringifyThenDeduplicate ==
    pc = "cleaned" =>
        LET S == [i \in 1..len(loaded) |->
                    [c \in columns(loaded) |->
                       IF \E j \in 1..len(loaded) : IsStructured(loaded.rows[j].c[c])
                       THEN PyStr(loaded.rows[i].c[c]) ELSE loaded.rows[i].c[c]]]
            K == KeptPositions(df)
        IN /\ StrictlyIncreasing(Index(df))
           /\ K \subseteq 1..len(loaded)
           /\ \A i \in 1..len(loaded) :
                  i \notin K => \E j \in K : j < i /\ S[j] = S[i]
           /\ \A i \in K : \A j \in K : i < j => S[i] # S[j]
           /\ \A c \in columns(loaded) :
                  (\E j \in 1..len(loaded) : IsStructured(loaded.rows[j].c[c])) =>
                      \A i \in 1..len(df) :
                          /\ df.rows[i].c[c].k = "str"
                          /\ df.rows[i].c[c] = S[df.rows[i].idx + 1][c]

C7_Witness ==
    /\ pc = "cleaned"
    /\ len(loaded) = 3
    /\ len(df) = 2
    /\ "tag" \in columns(loaded)
    /\ loaded.rows[1].c["tag"] = Dict("{'a': 1}")
    /\ loaded.rows[2].c["tag"] = None
    /\ loaded.rows[3].c["tag"] = Str("{'a': 1}")
    /\ Index(df) = <<0, 1>>

\* a text pd.to_datetime parses, or an already parsed timestamp
Parses(c) == c.k = "ts" \/ (c.k = "str" /\ c.s = "ts")

\* C8: when the cleaned frame has no timestamp column, or has one of which no
\* value parses, feature_engineering adds none of year, month, day, hour and
\* the results of ml_analysis have no time_series_trend key.
C8_NoTimestampNoCalendarNoTrend ==
    (/\ pc \in {"featured", "reported", "analysed", "saved"}
     /\ \/ "timestamp" \notin columns(cleaned)
        \/ \A i \in 1..len(cleaned) : ~Parses(cleaned.rows[i].c["timestamp"]))
    => /\ columns(df) \cap CalendarColumns = columns(cleaned) \cap CalendarColumns
       /\ "time_series_trend" \notin ml_results
       /\ pc = "saved" => "time_series_trend" \notin processed.results.ml_analysis

C8_Witness ==
    /\ pc = "analysed"
    /\ "timestamp" \notin columns(df)
    /\ "anomaly_counts" \in ml_results
    /\ "time_series_trend" \notin ml_results

\* C9: a numeric column whose IQR is zero (Q1 = Q3) is left unchanged by the
\* capping loop, whether or not its values are all equal.
C9_ZeroIQRUnchanged ==
    pc = "cleaned" =>
        \A c \in select_numeric(imputed) :
            LET f == Fence(Column(imputed, c))
            IN (~f.nan /\ f.q1 = f.q3) => Column(df, c) = Column(imputed, c)

\* C10: the capping loop replaces every value of a numeric column outside
\* [Q1 - 1.5 IQR, Q3 + 1.5 IQR] by the median the column had before any
\* replacement, leaves every other value as it was and removes no row; the
\* column 1, 2, 3, 4, 100 becomes 1, 2, 3, 4, 3.
C10_OutliersBecomeMedian ==
    pc = "cleaned" =>
        /\ Index(df) = Index(imputed)
        /\ \A c \in select_numeric(imputed) :
               LET col == Column(imputed, c)
                   f   == Fence(col)
               IN \A i \in 1..len(imputed) :
                      df.rows[i].c[c] =
                          IF ~f.nan /\ col[i].k = "num" /\ Outside(col[i].n, f.q1, f.q3)
                          THEN median(col) ELSE col[i]
        /\ (columns(loaded) = {"value"} /\
            Column(loaded, "value") = <<Num(1 * Unit), Num(2 * Unit), Num(3 * Unit),
                                        Num(4 * Unit), Num(100 * Unit)>>)
           => Column(df, "value") = <<Num(1 * Unit), Num(2 * Unit), Num(3 * Unit),
                                      Num(4 * Unit), Num(3 * Unit)>>

C10_Witness ==
    /\ pc = "cleaned"
    /\ columns(loaded) = {"value"}
    /\ Column(loaded, "value") = <<Num(1 * Unit), Num(2 * Unit), Num(3 * Unit),
                                   Num(4 * Unit), Num(100 * Unit)>>
    /\ Column(df, "value")[5] = Num(3 * Unit)

\* the positions of the log that hold an event of this stage and source
Events(stage, src) ==
    {k \in DOMAIN log : log[k].stage = stage /\ log[k].src = src}

\* how often x occurs in the list s
Count(s, x) == Cardinality({k \in DOMAIN s : s[k] = x})

\* C11: the transformer of a source is started only after that source's
\* extractor exited successfully; when the loop has ended every configured
\* source is recorded exactly once, in the success list exactly when both of
\* its stages succeeded, else in the failed list tagged with the first stage
\* that failed; every source is processed whatever happened to the earlier
\* ones; and the e-mail is attempted exactly once, after all sources.
C11_OrchestratorLoop ==
    /\ \A k \in DOMAIN log :
           log[k].stage = "transformer" =>
               \E j \in 1..(k - 1) :
                   log[j].stage = "extractor" /\ log[j].src = log[k].src /\ log[j].ok
    /\ ppc # "done" => \A k \in DOMAIN log : log[k].stage # "email"
    /\ ppc = "done" =>
           /\ Len(success_sources) + Len(failed_sources) = Len(config)
           /\ \A n \in DOMAIN config :
                  LET src == config[n]
                      E   == Events("extractor", src)
                      T   == Events("transformer", src)
                      ext_ok   == \E k \in E : log[k].ok
                      trans_ok == \E k \in T : log[k].ok
                  IN /\ Cardinality(E) = 1
                     /\ Cardinality(T) = IF ext_ok THEN 1 ELSE 0
                     /\ Count(success_sources, src)
                          + Count(failed_sources, FailedTag(src, "extractor"))
                          + Count(failed_sources, FailedTag(src, "transformer")) = 1
                     /\ Count(success_sources, src) = 1 <=> (ext_ok /\ trans_ok)
                     /\ Count(failed_sources, FailedTag(src, "extractor")) = 1 <=> ~ext_ok
                     /\ Count(failed_sources, FailedTag(src, "transformer")) = 1
                          <=> (ext_ok /\ ~trans_ok)
           /\ Cardinality({k \in DOMAIN log : log[k].stage = "email"}) = 1
           /\ log[Len(log)].stage = "email"

C11_Witness ==
    /\ ppc = "done"
    /\ Len(config) = 2
    /\ failed_sources = <<FailedTag(config[1], "extractor")>>
    /\ success_sources = <<config[2]>>
    /\ Len(log) = 4

\* C12: the file a transformer loads for a source is a file save_to_staging
\* wrote for that same source, and the most recently staged of them, also
\* when one source name is another followed by "__" and more (a and a__b).
C12_LoadsOwnLatestFile ==
    (/\ Len(log) > 0
     /\ log[Len(log)].stage = "transformer"
     /\ log[Len(log)].file # NoFile)
    => LET src  == log[Len(log)].src
           file == log[Len(log)].file
       IN /\ staging[file].src = src
          /\ \A f \in DOMAIN staging :
                 staging[f].src = src => staging[f].at <= staging[file].at

====
